---- MODULE Spec2Model ----
(***************************************************************************)
(* Tensor liveness analysis (src/src/pass/liveness_analysis.h).            *)
(*                                                                         *)
(* One LivenessAnalyzer instance: Run() on one function (form check,       *)
(* parameter initialisation, forward pass, backward pass, inversion of     *)
(* live_ and forest initialisation), followed by the planner's calls of    *)
(* Find / Unite / Intersect on the tensor units.                           *)
(*                                                                         *)
(* The class declaration, its inline members (Find, Unite, Intersect,      *)
(* CreateTensorVar, CreateNull, CreateTensor, Remove, Merge, Init,         *)
(* VarCreator, MergeLive, IsSuccess) are in liveness_analysis.h.  The      *)
(* out-of-line members (Run, Forward, Backward, the visitors' VisitExpr_)  *)
(* are declared there and defined in a file that is not among the sources; *)
(* they are modelled after sections 4.1, 4.3 and 4.4 of the specification. *)
(***************************************************************************)
EXTENDS Integers, Sequences, FiniteSets, TLC

VARIABLES
    pc,                  \* position inside Run / the planner phase
    progId,              \* which function func_ refers to
    size,                \* size of func_: chain length (progId = 1), nesting depth + 1 (progId = 5)
    argTy,               \* the result type of the operator of progId = 7
    failure_,            \* LivenessAnalyzer::failure_
    aborted,             \* a CHECK failed or .at() threw
    vset_,               \* LivenessAnalyzer::vset_
    vtuple_,             \* LivenessAnalyzer::vtuple_
    live_,               \* LivenessAnalyzer::live_
    label_,              \* LivenessAnalyzer::label_
    union_find_forest_,  \* LivenessAnalyzer::union_find_forest_
    inv_live_,           \* LivenessAnalyzer::inv_live_
    last,                \* the planner's last call: arguments, result, state before
    conforming,          \* every Unite(a,b) so far directly followed Intersect(a,b) = false
    conformingRoots,     \* ... followed Intersect(Find(a),Find(b)) = false
    next_,               \* BackwardAnalyzer::next_var_ when each binding was visited
    peer,                \* a second LivenessAnalyzer, of another function
    calls                \* how many member functions a caller has called after Run

inputs == << progId, size, argTy >>

vars == << pc, inputs, failure_, aborted, vset_, vtuple_, live_, label_,
           union_find_forest_, inv_live_, last, conforming, conformingRoots, next_, peer,
           calls >>

(***************************************************************************)
(* Bounds of the model.                                                    *)
(***************************************************************************)
MaxSize == 2

\* most fields of a tuple type given to the tensor-unit allocator
MaxWidth == 2

\* most member functions a caller calls after Run
MaxCalls == 1

(***************************************************************************)
(* Variables (Var objects).  A Var is an object: two Vars are equal when   *)
(* they are the same object (ObjectPtrEqual), whatever their names.  A     *)
(* source variable is [p |-> name, n |-> -1]; the k-th variable that       *)
(* CreateTensorVar makes for prefix p is [p |-> p, n |-> k].               *)
(***************************************************************************)
SrcVar(name) == [p |-> name, n |-> -1]

SynVar(prefix, k) == [p |-> prefix, n |-> k]

NullVar == [p |-> "", n |-> -2]

IsDefined(v) == v # NullVar

NameOf(v) == IF v.n = -1 THEN v.p ELSE v.p \o "_" \o ToString(v.n)

(***************************************************************************)
(* Types: a tensor type or a tuple of types.                               *)
(***************************************************************************)
TensorTy == [k |-> "tensor", fields |-> << >>]

TupleTy(fs) == [k |-> "tuple", fields |-> fs]

(***************************************************************************)
(* Expressions of the explicit-binding normal form.                        *)
(***************************************************************************)
CallE(callee, args, ty) == [k |-> "call", callee |-> callee, args |-> args, ty |-> ty]

TupleE(fields) == [k |-> "tuple", fields |-> fields]

GetItemE(tup, idx) == [k |-> "tgi", tup |-> tup, idx |-> idx]

RefE(ref) == [k |-> "var", ref |-> ref]

IfE(cond, tb, fb) == [k |-> "if", cond |-> cond, tb |-> tb, fb |-> fb]

Let(v, e) == [v |-> v, e |-> e]

Block(lets, ret) == [lets |-> lets, ret |-> ret]

Func(params, body) == [params |-> params, body |-> body]

Param(v, ty) == [v |-> v, ty |-> ty]

(***************************************************************************)
(* The functions analysed.  progId selects one; the chain program has      *)
(* size bindings v1 = op(x), v2 = op(v1), ...                              *)
(***************************************************************************)
ChainVar(i) == IF i = 0 THEN SrcVar("x") ELSE SrcVar("v" \o ToString(i))

ChainProg(len) ==
    Func(<< Param(SrcVar("x"), TensorTy) >>,
         Block([i \in 1..len |-> Let(ChainVar(i), CallE("op", << ChainVar(i - 1) >>, TensorTy))],
               ChainVar(len)))

\* the example of the file comment, with a two-output operator that reads
\* no variable
TupleProg ==
    Func(<< >>,
         Block(<< Let(SrcVar("a1"), CallE("op", << >>, TupleTy(<< TensorTy, TensorTy >>))),
                  Let(SrcVar("a2"), GetItemE(SrcVar("a1"), 0)),
                  Let(SrcVar("a3"), GetItemE(SrcVar("a1"), 1)),
                  Let(SrcVar("a4"), CallE("op", << SrcVar("a2"), SrcVar("a3") >>, TensorTy)),
                  Let(SrcVar("a5"), TupleE(<< SrcVar("a2"), SrcVar("a4") >>)) >>,
               SrcVar("a5")))

IfProg ==
    Func(<< Param(SrcVar("c"), TensorTy), Param(SrcVar("x"), TensorTy) >>,
         Block(<< Let(SrcVar("r"),
                      IfE(SrcVar("c"),
                          Block(<< Let(SrcVar("b1"), CallE("op", << SrcVar("x") >>, TensorTy)) >>,
                                SrcVar("b1")),
                          Block(<< Let(SrcVar("b2"), CallE("op", << SrcVar("x") >>, TensorTy)) >>,
                                SrcVar("b2")))) >>,
               SrcVar("r")))

AliasProg ==
    Func(<< Param(SrcVar("x"), TensorTy) >>,
         Block(<< Let(SrcVar("v1"), CallE("op", << SrcVar("x") >>, TensorTy)),
                  Let(SrcVar("v2"), RefE(SrcVar("v1"))),
                  Let(SrcVar("v3"), CallE("op", << SrcVar("v2"), SrcVar("x") >>, TensorTy)) >>,
               SrcVar("v3")))

\* a call of a function value, inside depth nested conditionals (in the
\* false branch of each)
RECURSIVE ClosureBlock(_)
ClosureBlock(depth) ==
    LET d == ToString(depth) IN
    IF depth = 0
    THEN Block(<< Let(SrcVar("v1"), CallE("op", << SrcVar("x") >>, TensorTy)),
                  Let(SrcVar("v2"), CallE("closure", << SrcVar("v1") >>, TensorTy)) >>,
               SrcVar("v2"))
    ELSE Block(<< Let(SrcVar("r" \o d),
                      IfE(SrcVar("c"),
                          Block(<< Let(SrcVar("b" \o d), CallE("op", << SrcVar("x") >>, TensorTy)) >>,
                                SrcVar("b" \o d)),
                          ClosureBlock(depth - 1))) >>,
               SrcVar("r" \o d))

ClosureProg(depth) ==
    Func(<< Param(SrcVar("c"), TensorTy), Param(SrcVar("x"), TensorTy) >>, ClosureBlock(depth))

\* v1 is written and never read
DeadProg ==
    Func(<< Param(SrcVar("x"), TensorTy) >>,
         Block(<< Let(SrcVar("v1"), CallE("op", << SrcVar("x") >>, TensorTy)),
                  Let(SrcVar("v2"), CallE("op", << SrcVar("x") >>, TensorTy)) >>,
               SrcVar("v2")))

\* the types given to the tensor-unit allocator: a tensor, and tuples of at
\* most MaxWidth fields whose fields are tensors or such tuples of tensors
TuplesOver(tys) == { TupleTy(fs) : fs \in UNION { [1..w -> tys] : w \in 0..MaxWidth } }

Types == {TensorTy} \cup TuplesOver({TensorTy} \cup TuplesOver({TensorTy}))

\* one operator without arguments whose result has the type argTy
TypeProg ==
    Func(<< >>,
         Block(<< Let(SrcVar("a1"), CallE("op", << >>, argTy)) >>, SrcVar("a1")))

\* k field variables (f1 a pair, f2 its first field, the others tensors),
\* the tuple of them, the projection of every field, and the second field
\* of the projected pair
RoundTripProg(k) ==
    LET f(i) == SrcVar("f" \o ToString(i))
        pr(i) == SrcVar("p" \o ToString(i))
        FieldE(i) == IF i = 1 THEN CallE("op", << >>, TupleTy(<< TensorTy, TensorTy >>))
                     ELSE IF i = 2 THEN GetItemE(f(1), 0)
                     ELSE CallE("op", << f(i - 1) >>, TensorTy)
    IN  Func(<< >>,
             Block([i \in 1..k |-> Let(f(i), FieldE(i))]
                   \o << Let(SrcVar("tup"), TupleE([i \in 1..k |-> f(i)])) >>
                   \o [i \in 1..k |-> Let(pr(i), GetItemE(SrcVar("tup"), i - 1))]
                   \o << Let(SrcVar("q"), GetItemE(pr(1), 1)) >>,
                   SrcVar("q")))

\* an operator whose result is a one-field tuple holding a pair
NestProg ==
    Func(<< >>,
         Block(<< Let(SrcVar("a1"),
                      CallE("op", << >>, TupleTy(<< TupleTy(<< TensorTy, TensorTy >>) >>))),
                  Let(SrcVar("a2"), GetItemE(SrcVar("a1"), 0)),
                  Let(SrcVar("a3"), GetItemE(SrcVar("a2"), 1)) >>,
               SrcVar("a3")))

\* a source program whose parameter is named t_0
NameProg ==
    Func(<< Param(SrcVar("t_0"), TensorTy) >>,
         Block(<< Let(SrcVar("v1"), CallE("op", << SrcVar("t_0") >>, TensorTy)) >>,
               SrcVar("v1")))

\* a pair, a second name for it, and a projection through the second name
AliasTupleProg ==
    Func(<< >>,
         Block(<< Let(SrcVar("a1"), CallE("op", << >>, TupleTy(<< TensorTy, TensorTy >>))),
                  Let(SrcVar("a2"), RefE(SrcVar("a1"))),
                  Let(SrcVar("a3"), GetItemE(SrcVar("a2"), 1)) >>,
               SrcVar("a3")))

ProgIds == 1..6

RunProgIds == 1..11

\* the functions after whose analysis a caller calls member functions
OpsProgIds == {2, 4, 6, 11}

SizedProgs == {1, 5, 8}

Prog(id, sz) ==
    CASE id = 1 -> ChainProg(sz)
      [] id = 2 -> TupleProg
      [] id = 3 -> IfProg
      [] id = 4 -> AliasProg
      [] id = 5 -> ClosureProg(sz - 1)
      [] id = 6 -> DeadProg
      [] id = 7 -> TypeProg
      [] id = 8 -> RoundTripProg(sz)
      [] id = 9 -> NestProg
      [] id = 10 -> NameProg
      [] id = 11 -> AliasTupleProg

func_ == Prog(progId, size)

(***************************************************************************)
(* What the input contract calls well formed: no call whose callee is a    *)
(* function value, at any depth.  Every variable bound anywhere in a block *)
(* and the function's parameters are its program variables.                *)
(***************************************************************************)
RECURSIVE HasClosure(_)
HasClosure(b) ==
    \E i \in 1..Len(b.lets) :
        LET e == b.lets[i].e IN
        \/ e.k = "call" /\ e.callee # "op"
        \/ e.k = "if" /\ (HasClosure(e.tb) \/ HasClosure(e.fb))

RECURSIVE BoundVars(_)
BoundVars(b) ==
    UNION { LET e == b.lets[i].e IN
            {b.lets[i].v} \cup (IF e.k = "if" THEN BoundVars(e.tb) \cup BoundVars(e.fb) ELSE {})
          : i \in 1..Len(b.lets) }

ProgramVars(f) == { f.params[i].v : i \in 1..Len(f.params) } \cup BoundVars(f.body)

(***************************************************************************)
(* The analyzer's tables while a pass runs, as one record                  *)
(*   [vset, vtuple, live, label, next, abort, ret]                         *)
(* abort is set when a CHECK fails or a map's at() throws; ret is the Var  *)
(* the member function returned.  A member function called on an aborted   *)
(* analyzer does nothing: the process has ended.                           *)
(***************************************************************************)
Put(f, k, v) == (k :> v) @@ f

Abort(s) == [s EXCEPT !.abort = TRUE, !.ret = NullVar]

\* CreateTensorVar that does not count the name it hands out
CreateTensorVarNoCount(s, name) ==
    LET label == IF name \in DOMAIN s.label THEN s.label[name] ELSE 0
    IN  [s EXCEPT !.label = Put(s.label, name, label),
                  !.ret = SynVar(name, label)]

\* CreateTensorVar with label_ a static member: one counter per prefix for
\* all the analyzers of the process
CreateTensorVarStatic(s, name) ==
    LET Count(l) == IF name \in DOMAIN l THEN l[name] ELSE 0
        Max(a, b) == IF a > b THEN a ELSE b
        others == Max(Count(label_), IF peer.pc = "none" THEN 0 ELSE Count(peer.label))
        label == Max(Count(s.label), others)
    IN  [s EXCEPT !.label = Put(s.label, name, label + 1),
                  !.ret = SynVar(name, label)]

\* Var CreateTensorVar(const std::string& name)
CreateTensorVar(s, name) ==
    LET label == IF name \in DOMAIN s.label THEN s.label[name] ELSE 0
    IN  [s EXCEPT !.label = Put(s.label, name, label + 1),
                  !.ret = SynVar(name, label)]

\* Var CreateNull(const std::string& name = "n")
CreateNull(s) ==
    LET s1 == CreateTensorVar(s, "n")
    IN  [s1 EXCEPT !.vset = Put(s1.vset, s1.ret, {})]

\* Var CreateTensor(const std::string& name = "t")
CreateTensor(s) ==
    LET s1 == CreateTensorVar(s, "t")
    IN  [s1 EXCEPT !.vset = Put(s1.vset, s1.ret, {s1.ret})]

\* static VSet Remove(const VSet& vset1, const VSet& vset2)
RemoveSet(vset1, vset2) == vset1 \ vset2

\* static VSet Merge(const VSet& vset1, const VSet& vset2)
MergeSet(vset1, vset2) == vset1 \cup vset2

\* Var Remove(Var v1, Var v2)
Remove(s, v1, v2) ==
    IF s.abort THEN s
    ELSE IF v1 \notin DOMAIN s.vset \/ v2 \notin DOMAIN s.vset THEN Abort(s)
    ELSE LET s1 == CreateTensorVar(s, "rs")
         IN  [s1 EXCEPT !.vset = Put(s1.vset, s1.ret, RemoveSet(s.vset[v1], s.vset[v2]))]

\* Merge that keeps the units of v1 only
MergeLeft(s, v1, v2) ==
    IF s.abort THEN s
    ELSE IF v1 \notin DOMAIN s.vset \/ v2 \notin DOMAIN s.vset THEN Abort(s)
    ELSE LET s1 == CreateTensorVar(s, "ms")
         IN  [s1 EXCEPT !.vset = Put(s1.vset, s1.ret, s.vset[v1])]

\* Merge that adds vset_[v2] to the entry of v1 and returns v1
MergeInPlace(s, v1, v2) ==
    IF s.abort THEN s
    ELSE IF v1 \notin DOMAIN s.vset \/ v2 \notin DOMAIN s.vset THEN Abort(s)
    ELSE [s EXCEPT !.vset = Put(s.vset, v1, MergeSet(s.vset[v1], s.vset[v2])),
                   !.ret = v1]

\* Var Merge(Var v1, Var v2)
Merge(s, v1, v2) ==
    IF s.abort THEN s
    ELSE IF v1 \notin DOMAIN s.vset \/ v2 \notin DOMAIN s.vset THEN Abort(s)
    ELSE LET s1 == CreateTensorVar(s, "ms")
         IN  [s1 EXCEPT !.vset = Put(s1.vset, s1.ret, MergeSet(s.vset[v1], s.vset[v2]))]

\* the loop of Merge(Array<Var>): ret = Merge(ret, vars[i]) for i = from..n-1
RECURSIVE MergeFrom(_, _, _)
MergeFrom(s, vs, i) ==
    IF s.abort \/ i > Len(vs) THEN s
    ELSE MergeFrom(Merge(s, s.ret, vs[i]), vs, i + 1)

\* Merge(Array<Var>) without the loop over vars[2..]
MergeArrFirstTwo(s, vs) ==
    IF s.abort THEN s
    ELSE IF Len(vs) = 0 THEN CreateNull(s)
    ELSE IF Len(vs) = 1
         THEN IF vs[1] \in DOMAIN s.vset THEN [s EXCEPT !.ret = vs[1]] ELSE Abort(s)
    ELSE Merge(s, vs[1], vs[2])

\* Var Merge(Array<Var> vars)
MergeArr(s, vs) ==
    IF s.abort THEN s
    ELSE IF Len(vs) = 0 THEN CreateNull(s)
    ELSE IF Len(vs) = 1
         THEN IF vs[1] \in DOMAIN s.vset THEN [s EXCEPT !.ret = vs[1]] ELSE Abort(s)
    ELSE MergeFrom(Merge(s, vs[1], vs[2]), vs, 3)

\* Init without vset_[to] = vset_[from]
InitVarNoVset(s, to, from) ==
    IF s.abort THEN s
    ELSE IF from \in DOMAIN s.vtuple
         THEN [s EXCEPT !.vtuple = Put(s.vtuple, to, s.vtuple[from])]
    ELSE s

\* Init that makes the target a tensor unit of its own
InitVarMint(s, to, from) ==
    IF s.abort THEN s
    ELSE IF from \in DOMAIN s.vtuple /\ to \in DOMAIN s.vtuple THEN Abort(s)
    ELSE IF to \in DOMAIN s.vset THEN Abort(s)
    ELSE LET vt == IF from \in DOMAIN s.vtuple
                   THEN Put(s.vtuple, to, s.vtuple[from]) ELSE s.vtuple
             vs0 == IF from \in DOMAIN s.vset THEN s.vset ELSE Put(s.vset, from, {})
         IN  [s EXCEPT !.vtuple = vt, !.vset = Put(vs0, to, vs0[from] \cup {to})]

\* Init without CHECK(vset_.find(to) == vset_.end())
InitVarOverwrite(s, to, from) ==
    IF s.abort THEN s
    ELSE IF from \in DOMAIN s.vtuple /\ to \in DOMAIN s.vtuple THEN Abort(s)
    ELSE LET vt == IF from \in DOMAIN s.vtuple
                   THEN Put(s.vtuple, to, s.vtuple[from]) ELSE s.vtuple
             vs0 == IF from \in DOMAIN s.vset THEN s.vset ELSE Put(s.vset, from, {})
         IN  [s EXCEPT !.vtuple = vt, !.vset = Put(vs0, to, vs0[from])]

\* void Init(Var to, Var from); vset_[from] is operator[]: a missing entry
\* is created empty
InitVar(s, to, from) ==
    IF s.abort THEN s
    ELSE IF from \in DOMAIN s.vtuple /\ to \in DOMAIN s.vtuple THEN Abort(s)
    ELSE IF to \in DOMAIN s.vset THEN Abort(s)
    ELSE LET vt == IF from \in DOMAIN s.vtuple
                   THEN Put(s.vtuple, to, s.vtuple[from]) ELSE s.vtuple
             vs0 == IF from \in DOMAIN s.vset THEN s.vset ELSE Put(s.vset, from, {})
         IN  [s EXCEPT !.vtuple = vt, !.vset = Put(vs0, to, vs0[from])]

\* VarCreator::VisitType_ : Var CreateTensorVar(const Type& type)
\* acc.fields collects the Vars of the fields visited so far
RECURSIVE VisitType(_, _)
RECURSIVE VisitFields(_, _, _, _)
VisitFields(s, tys, i, fields) ==
    IF i > Len(tys) THEN [s |-> s, fields |-> fields]
    ELSE LET s1 == VisitType(s, tys[i])
         IN  VisitFields(s1, tys, i + 1, Append(fields, s1.ret))

VisitType(s, ty) ==
    IF s.abort THEN s
    ELSE IF ty.k = "tensor" THEN CreateTensor(s)
    ELSE LET r  == VisitFields(s, ty.fields, 1, << >>)
             s1 == MergeArr(r.s, r.fields)
         IN  IF s1.abort THEN s1
             ELSE [s1 EXCEPT !.vtuple = Put(s1.vtuple, s1.ret, r.fields)]

(***************************************************************************)
(* FormChecker (section 4.1): visits every call and every conditional of   *)
(* the body, the branches of a conditional included; TRUE when some call's *)
(* callee is not a primitive operator.                                     *)
(***************************************************************************)
RECURSIVE FormCheck(_)
FormCheck(b) ==
    LET VisitCall(e) == e.callee # "op"
        VisitIf(e)   == FormCheck(e.tb) \/ FormCheck(e.fb)
        VisitExpr(e) == CASE e.k = "call" -> VisitCall(e)
                          [] e.k = "if"   -> VisitIf(e)
                          [] OTHER        -> FALSE
    IN  \E i \in 1..Len(b.lets) : VisitExpr(b.lets[i].e)

\* IsSuccess without the negation
IsSuccessNotNegated == failure_

\* bool IsSuccess()
IsSuccess == ~failure_

(***************************************************************************)
(* ForwardAnalyzer (section 4.3): one rule per kind of expression, applied *)
(* to the bindings in program order; returns the block's result variable.  *)
(***************************************************************************)
RECURSIVE Forward(_, _)
RECURSIVE ForwardFrom(_, _, _)
ForwardExpr(s, let_var, e) ==
    IF s.abort THEN s
    ELSE CASE e.k = "var" -> InitVar(s, let_var, e.ref)
           [] e.k = "call" ->
                IF e.callee # "op" THEN Abort(s)
                ELSE LET s1 == VisitType(s, e.ty) IN InitVar(s1, let_var, s1.ret)
           [] e.k = "tuple" ->
                LET s1 == MergeArr(s, e.fields)
                    s2 == InitVar(s1, let_var, s1.ret)
                IN  IF s2.abort THEN s2
                    ELSE [s2 EXCEPT !.vtuple = Put(s2.vtuple, let_var, e.fields)]
           [] e.k = "tgi" ->
                IF e.tup \notin DOMAIN s.vtuple \/ e.idx + 1 > Len(s.vtuple[e.tup])
                THEN Abort(s)
                ELSE InitVar(s, let_var, s.vtuple[e.tup][e.idx + 1])
           [] e.k = "if" ->
                LET s1 == Forward(s, e.tb)
                    s2 == Forward(s1, e.fb)
                    s3 == Merge(s2, s1.ret, s2.ret)
                IN  InitVar(s3, let_var, s3.ret)

ForwardFrom(s, b, i) ==
    IF s.abort THEN s
    ELSE IF i > Len(b.lets) THEN [s EXCEPT !.ret = b.ret]
    ELSE ForwardFrom(ForwardExpr(s, b.lets[i].v, b.lets[i].e), b, i + 1)

Forward(s, b) == ForwardFrom(s, b, 1)

\* Run: a unit-set for every parameter, from its type
RECURSIVE InitParams(_, _, _)
InitParams(s, params, i) ==
    IF s.abort \/ i > Len(params) THEN s
    ELSE LET s1 == VisitType(s, params[i].ty)
         IN  InitParams(InitVar(s1, params[i].v, s1.ret), params, i + 1)

(***************************************************************************)
(* BackwardAnalyzer (section 4.4).  MergeLive is the header's; the walk    *)
(* over the bindings in reverse order follows the specification.           *)
(***************************************************************************)
\* the first two statements of MergeLive: a variable holding live_[next_var_];
\* the name is made before live_.at(next_var_) is evaluated
LiveVar(s, next_var) ==
    IF s.abort THEN s
    ELSE LET s1 == CreateTensorVar(s, "ml")
         IN  IF next_var \notin DOMAIN s.live THEN Abort(s1)
             ELSE [s1 EXCEPT !.vset = Put(s1.vset, s1.ret, s.live[next_var])]

\* MergeLive that does not remove the units of def
MergeLiveNoRemove(s, next_var, cur, def) ==
    LET s1 == LiveVar(s, next_var)
    IN  Merge(s1, s1.ret, cur)

\* MergeLive that adds the units of cur before it removes those of def
MergeLiveRemoveLast(s, next_var, cur, def) ==
    LET s1 == LiveVar(s, next_var)
        s2 == Merge(s1, s1.ret, cur)
    IN  IF IsDefined(def) THEN Remove(s2, s2.ret, def) ELSE s2

\* MergeLive that does not add the units of cur
MergeLiveNoCur(s, next_var, cur, def) ==
    LET s1 == LiveVar(s, next_var)
    IN  IF IsDefined(def) THEN Remove(s1, s1.ret, def) ELSE s1

\* Var MergeLive(const Var& cur, const Var& def = Var())
MergeLive(s, next_var, cur, def) ==
    LET s1 == LiveVar(s, next_var)
        s2 == IF IsDefined(def) THEN Remove(s1, s1.ret, def) ELSE s1
    IN  Merge(s2, s2.ret, cur)

SetLive(s, anchor) ==
    IF s.abort THEN s ELSE [s EXCEPT !.live = Put(s.live, anchor, s.vset[s.ret])]

RECURSIVE Backward(_, _, _)
RECURSIVE BackwardFrom(_, _, _, _)
\* the variable whose unit-set is use-units(e)
UseVar(s, e, next_var) ==
    IF s.abort THEN s
    ELSE CASE e.k = "var"   -> MergeArr(s, << e.ref >>)
           [] e.k = "call"  -> MergeArr(s, e.args)
           [] e.k = "tuple" -> MergeArr(s, e.fields)
           [] e.k = "tgi"   -> MergeArr(s, << e.tup >>)
           [] e.k = "if"    ->
                LET s1 == Backward(s, e.tb, next_var)
                    l1 == LiveVar(s1, s1.ret)
                    s2 == Backward(l1, e.fb, next_var)
                    l2 == LiveVar(s2, s2.ret)
                IN  MergeArr(l2, << e.cond, l1.ret, l2.ret >>)

BackwardExpr(s, let_var, e, next_var) ==
    LET s1 == UseVar(s, e, next_var)
        s2 == SetLive(MergeLive(s1, next_var, s1.ret, let_var), let_var)
    IN  IF s2.abort THEN s2 ELSE [s2 EXCEPT !.next = Put(s2.next, let_var, next_var)]

\* bindings i, i-1, ..., 1; dummy anchors the block's result
BackwardFrom(s, b, i, dummy) ==
    IF s.abort THEN s
    ELSE IF i = 0
         THEN [s EXCEPT !.ret = IF Len(b.lets) = 0 THEN dummy ELSE b.lets[1].v]
    ELSE LET next_var == IF i = Len(b.lets) THEN dummy ELSE b.lets[i + 1].v
         IN  BackwardFrom(BackwardExpr(s, b.lets[i].v, b.lets[i].e, next_var), b, i - 1, dummy)

\* void Backward(const Expr& e, const Var& next_var): returns the anchor of
\* the block's first line
Backward(s, b, next_var) ==
    IF s.abort THEN s
    ELSE LET s1 == CreateNull(s)
             dummy == s1.ret
             s2 == SetLive(MergeLive(s1, next_var, b.ret, NullVar), dummy)
         IN  BackwardFrom(s2, b, Len(b.lets), dummy)

\* Run: the backward pass starts from an anchor with nothing live
RunBackward(s, b) ==
    LET s1 == CreateNull(s)
        s2 == [s1 EXCEPT !.live = Put(s1.live, s1.ret, {})]
    IN  Backward(s2, b, s1.ret)

(***************************************************************************)
(* The tensor units: the Vars that occur in a unit-set.                    *)
(***************************************************************************)
UnitsOf(vset) == UNION { vset[v] : v \in DOMAIN vset }

Units == UnitsOf(vset_)

\* an inverted index that has lost the anchors
InvertEmpty(live, units) == [x \in units |-> {}]

\* an inverted index with entries for the units that are live somewhere only
InvertLiveOnly(live, units) ==
    [x \in { u \in units : \E y \in DOMAIN live : u \in live[y] } |->
        { y \in DOMAIN live : x \in live[y] }]

\* inv_live_[x] = {y | x \in live_[y]}
Invert(live, units) == [x \in units |-> { y \in DOMAIN live : x \in live[y] }]

\* every unit is its own root
InitForest(units) == [x \in units |-> x]

\* GetTensorVar that returns a unit of every non-empty unit-set
GetTensorVarAny(vset, x) ==
    IF x \notin DOMAIN vset THEN [ret |-> NullVar, abort |-> TRUE]
    ELSE IF vset[x] = {} THEN [ret |-> NullVar, abort |-> FALSE]
    ELSE [ret |-> CHOOSE u \in vset[x] : TRUE, abort |-> FALSE]

\* Var GetTensorVar(const Var& x); vset_.at(x) throws on a missing key
GetTensorVar(vset, x) ==
    IF x \notin DOMAIN vset THEN [ret |-> NullVar, abort |-> TRUE]
    ELSE IF Cardinality(vset[x]) # 1 THEN [ret |-> NullVar, abort |-> FALSE]
    ELSE [ret |-> CHOOSE u \in vset[x] : TRUE, abort |-> FALSE]

\* a Var the analysed function does not bind
UnboundVar == SrcVar("unbound")

(***************************************************************************)
(* The union-find forest and the intersection test.                        *)
(***************************************************************************)
\* Find without the recursive call: returns the parent
FindParentOnly(f, x) ==
    IF x \notin DOMAIN f THEN [f |-> f, ret |-> NullVar, abort |-> TRUE]
    ELSE [f |-> f, ret |-> f[x], abort |-> FALSE]

\* Find that makes x its own parent instead of a child of the root
FindUnlink(f, x) ==
    IF x \notin DOMAIN f THEN [f |-> f, ret |-> NullVar, abort |-> TRUE]
    ELSE IF x = f[x] THEN [f |-> f, ret |-> x, abort |-> FALSE]
    ELSE [f |-> [f EXCEPT ![x] = x], ret |-> f[x], abort |-> FALSE]

\* Var Find(const Var& x): the root, and the forest with the path from x
\* compressed
RECURSIVE Find(_, _)
Find(f, x) ==
    IF x \notin DOMAIN f THEN [f |-> f, ret |-> NullVar, abort |-> TRUE]
    ELSE IF x = f[x] THEN [f |-> f, ret |-> x, abort |-> FALSE]
    ELSE LET r == Find(f, f[x])
         IN  IF r.abort THEN r
             ELSE [f |-> [r.f EXCEPT ![x] = r.ret], ret |-> r.ret, abort |-> FALSE]

\* Unite without union_find_forest_[fx] = fy
UniteNoLink(f, inv, x, y) ==
    LET rx == Find(f, x)
        ry == Find(rx.f, y)
    IN  [f |-> ry.f, inv |-> Put(inv, ry.ret, inv[ry.ret] \cup inv[rx.ret]),
         ret |-> ry.ret, abort |-> FALSE]

\* Unite without the insertion into inv_live_[fy]
UniteNoUnion(f, inv, x, y) ==
    LET rx == Find(f, x)
        ry == Find(rx.f, y)
    IN  [f |-> [ry.f EXCEPT ![rx.ret] = ry.ret], inv |-> inv, ret |-> ry.ret, abort |-> FALSE]

\* Unite inserting into the absorbed root's entry instead of the survivor's
UniteWrongEntry(f, inv, x, y) ==
    LET rx == Find(f, x)
        ry == Find(rx.f, y)
    IN  [f |-> [ry.f EXCEPT ![rx.ret] = ry.ret],
         inv |-> Put(inv, rx.ret, inv[rx.ret] \cup inv[ry.ret]),
         ret |-> ry.ret, abort |-> FALSE]

\* Unite that refuses to merge intersecting live ranges
UniteGuarded(f, inv, x, y) ==
    LET rx == Find(f, x)
        ry == Find(rx.f, y)
    IN  IF inv[x] \cap inv[y] # {}
        THEN [f |-> ry.f, inv |-> inv, ret |-> NullVar, abort |-> TRUE]
        ELSE [f |-> [ry.f EXCEPT ![rx.ret] = ry.ret],
              inv |-> Put(inv, ry.ret, inv[ry.ret] \cup inv[rx.ret]),
              ret |-> ry.ret, abort |-> FALSE]

\* Unite that moves the anchors of fx to fy and leaves fx with none
UniteMove(f, inv, x, y) ==
    LET rx == Find(f, x)
        ry == Find(rx.f, y)
        fx == rx.ret
        fy == ry.ret
    IN  IF rx.abort \/ ry.abort \/ fx \notin DOMAIN inv
        THEN [f |-> f, inv |-> inv, ret |-> NullVar, abort |-> TRUE]
        ELSE [f     |-> [ry.f EXCEPT ![fx] = fy],
              inv   |-> Put(Put(inv, fy, (IF fy \in DOMAIN inv THEN inv[fy] ELSE {}) \cup inv[fx]),
                            fx, {}),
              ret   |-> fy,
              abort |-> FALSE]

\* Unite that links x to y themselves, not their roots
UniteNoFind(f, inv, x, y) ==
    IF x \notin DOMAIN f \/ y \notin DOMAIN f \/ x \notin DOMAIN inv
    THEN [f |-> f, inv |-> inv, ret |-> NullVar, abort |-> TRUE]
    ELSE [f     |-> [f EXCEPT ![x] = y],
          inv   |-> Put(inv, y, (IF y \in DOMAIN inv THEN inv[y] ELSE {}) \cup inv[x]),
          ret   |-> y,
          abort |-> FALSE]

\* Var Unite(const Var& x, const Var& y)
\* When x and y are already in one class fx = fy and the set is inserted
\* into itself, which the container requirements do not allow
\* (a.insert(i, j) with i, j iterators into a).  The insertion of a range
\* into a set of unique keys inserts the elements one by one, each is found
\* present and nothing is inserted, in libstdc++ with or without the rehash
\* before the loop and in libc++ alike: the builds have one outcome, the
\* set with the elements it had.
Unite(f, inv, x, y) ==
    LET rx == Find(f, x)
        ry == Find(rx.f, y)
        fx == rx.ret
        fy == ry.ret
    IN  IF rx.abort \/ ry.abort \/ fx \notin DOMAIN inv
        THEN [f |-> f, inv |-> inv, ret |-> NullVar, abort |-> TRUE]
        ELSE [f     |-> [ry.f EXCEPT ![fx] = fy],
              inv   |-> Put(inv, fy, (IF fy \in DOMAIN inv THEN inv[fy] ELSE {}) \cup inv[fx]),
              ret   |-> fy,
              abort |-> FALSE]

\* Intersect answering whether every element of sx is in sy
IntersectAll(inv, x, y) ==
    [ret |-> \A v \in inv[x] : v \in inv[y], abort |-> FALSE]

\* bool Intersect(const Var& x, const Var& y)
Intersect(inv, x, y) ==
    IF x \notin DOMAIN inv \/ y \notin DOMAIN inv
    THEN [ret |-> FALSE, abort |-> TRUE]
    ELSE LET sx == inv[x]
             sy == inv[y]
         IN  [ret |-> \E v \in sx : v \in sy, abort |-> FALSE]

(***************************************************************************)
(* The state machine.                                                      *)
(***************************************************************************)
NoCall == [op |-> "none", a |-> NullVar, b |-> NullVar, ret |-> NullVar, bret |-> FALSE,
           forest0 |-> << >>, inv0 |-> << >>]

\* no second analyzer
NoPeer == [pc |-> "none"]

Tables == [vset |-> vset_, vtuple |-> vtuple_, live |-> live_, label |-> label_,
           next |-> next_, abort |-> FALSE, ret |-> NullVar]

SetTables(s) ==
    /\ vset_' = s.vset
    /\ vtuple_' = s.vtuple
    /\ live_' = s.live
    /\ label_' = s.label
    /\ next_' = s.next
    /\ aborted' = s.abort

Init ==
    /\ pc = "start"
    /\ progId \in ProgIds
    /\ size \in 1..MaxSize
    /\ progId \notin SizedProgs => size = 1
    /\ failure_ = FALSE
    /\ aborted = FALSE
    /\ vset_ = << >>
    /\ vtuple_ = << >>
    /\ live_ = << >>
    /\ label_ = << >>
    /\ union_find_forest_ = << >>
    /\ inv_live_ = << >>
    /\ last = NoCall
    /\ conforming = TRUE
    /\ conformingRoots = TRUE
    /\ argTy = TensorTy
    /\ next_ = << >>
    /\ calls = 0
    /\ peer = NoPeer

\* Run, first part: FormCheck(func_->body); on failure Run returns
FormCheckStep ==
    /\ pc = "start"
    /\ failure_' = FormCheck(func_.body)
    /\ pc' = IF failure_' THEN "done" ELSE "checked"
    /\ UNCHANGED << inputs, peer, calls, next_, aborted, vset_, vtuple_, live_, label_,
                    union_find_forest_, inv_live_, last, conforming, conformingRoots >>

\* Run, second part: the parameters' unit-sets, then the forward pass
ForwardStep ==
    /\ pc = "checked"
    /\ LET s == Forward(InitParams(Tables, func_.params, 1), func_.body)
       IN  /\ SetTables(s)
           /\ pc' = IF s.abort THEN "aborted" ELSE "forwarded"
    /\ UNCHANGED << inputs, peer, calls, failure_, union_find_forest_, inv_live_, last,
                    conforming, conformingRoots >>

\* Run, third part: the backward pass
BackwardStep ==
    /\ pc = "forwarded"
    /\ LET s == RunBackward(Tables, func_.body)
       IN  /\ SetTables(s)
           /\ pc' = IF s.abort THEN "aborted" ELSE "backwarded"
    /\ UNCHANGED << inputs, peer, calls, failure_, union_find_forest_, inv_live_, last,
                    conforming, conformingRoots >>

\* Run, last part: inv_live_ and the forest
FinishStep ==
    /\ pc = "backwarded"
    /\ inv_live_' = Invert(live_, Units)
    /\ union_find_forest_' = InitForest(Units)
    /\ pc' = "ready"
    /\ UNCHANGED << inputs, peer, calls, next_, failure_, aborted, vset_, vtuple_, live_, label_,
                    last, conforming, conformingRoots >>

\* the planner calls Find(x)
FindCall ==
    /\ pc = "ready"
    /\ \E x \in Units :
        LET r == Find(union_find_forest_, x)
        IN  /\ union_find_forest_' = r.f
            /\ last' = [op |-> "Find", a |-> x, b |-> x, ret |-> r.ret, bret |-> FALSE,
                        forest0 |-> union_find_forest_, inv0 |-> inv_live_]
            /\ pc' = IF r.abort THEN "aborted" ELSE "ready"
            /\ aborted' = r.abort
    /\ UNCHANGED << inputs, peer, calls, next_, failure_, vset_, vtuple_, live_, label_, inv_live_,
                    conforming, conformingRoots >>

\* the planner calls Intersect(x, y)
IntersectCall ==
    /\ pc = "ready"
    /\ \E x \in Units, y \in Units :
        LET r == Intersect(inv_live_, x, y)
        IN  /\ last' = [op |-> "Intersect", a |-> x, b |-> y, ret |-> NullVar, bret |-> r.ret,
                        forest0 |-> union_find_forest_, inv0 |-> inv_live_]
            /\ pc' = IF r.abort THEN "aborted" ELSE "ready"
            /\ aborted' = r.abort
    /\ UNCHANGED << inputs, peer, calls, next_, failure_, vset_, vtuple_, live_, label_,
                    union_find_forest_, inv_live_, conforming, conformingRoots >>

\* the planner calls Unite(x, y)
UniteCall ==
    /\ pc = "ready"
    /\ \E x \in Units, y \in Units :
        LET r == Unite(union_find_forest_, inv_live_, x, y)
            clear(p, q) == last.op = "Intersect" /\ last.a = p /\ last.b = q /\ ~last.bret
        IN  /\ union_find_forest_' = r.f
            /\ inv_live_' = r.inv
            /\ last' = [op |-> "Unite", a |-> x, b |-> y, ret |-> r.ret, bret |-> FALSE,
                        forest0 |-> union_find_forest_, inv0 |-> inv_live_]
            /\ conforming' = (conforming /\ clear(x, y))
            /\ conformingRoots' =
                   (conformingRoots /\ clear(Find(union_find_forest_, x).ret,
                                             Find(union_find_forest_, y).ret))
            /\ pc' = IF r.abort THEN "aborted" ELSE "ready"
            /\ aborted' = r.abort
    /\ UNCHANGED << inputs, peer, calls, next_, failure_, vset_, vtuple_, live_, label_ >>

\* a caller asks for the tensor unit of a variable
GetTensorVarCall ==
    /\ pc = "ready"
    /\ \E x \in DOMAIN vset_ \cup {UnboundVar} :
        LET r == GetTensorVar(vset_, x)
        IN  /\ last' = [op |-> "GetTensorVar", a |-> x, b |-> x, ret |-> r.ret, bret |-> FALSE,
                        forest0 |-> union_find_forest_, inv0 |-> inv_live_]
            /\ pc' = IF r.abort THEN "aborted" ELSE "ready"
            /\ aborted' = r.abort
    /\ UNCHANGED << inputs, peer, calls, next_, failure_, vset_, vtuple_, live_, label_,
                    union_find_forest_, inv_live_, conforming, conformingRoots >>

Next ==
    \/ FormCheckStep
    \/ ForwardStep
    \/ BackwardStep
    \/ FinishStep
    \/ FindCall
    \/ IntersectCall
    \/ UniteCall

Spec == Init /\ [][Next]_vars

(***************************************************************************)
(* Run on a larger family of functions, followed by GetTensorVar queries.  *)
(***************************************************************************)
InitRun ==
    /\ pc = "start"
    /\ progId \in RunProgIds
    /\ size \in 1..MaxSize
    /\ progId \notin SizedProgs => size = 1
    /\ argTy \in IF progId = 7 THEN Types ELSE {TensorTy}
    /\ failure_ = FALSE
    /\ aborted = FALSE
    /\ vset_ = << >>
    /\ vtuple_ = << >>
    /\ live_ = << >>
    /\ label_ = << >>
    /\ union_find_forest_ = << >>
    /\ inv_live_ = << >>
    /\ last = NoCall
    /\ conforming = TRUE
    /\ conformingRoots = TRUE
    /\ next_ = << >>
    /\ calls = 0
    /\ peer = NoPeer

(***************************************************************************)
(* Member functions called one at a time after Run, on the tables Run      *)
(* left.  The arguments are the first name the function binds, its result, *)
(* and a Var that no table knows; Init also gets a name not yet used.      *)
(***************************************************************************)
Pool == {func_.body.lets[1].v, func_.body.ret, UnboundVar}

FreshName == SrcVar("w")

\* a member function that works on vset_, vtuple_, live_ and label_ has run
\* and left the tables s
MemberCall(op, args, s) ==
    /\ SetTables(s)
    /\ last' = [op |-> op, args |-> args, ret |-> s.ret]
    /\ pc' = IF s.abort THEN "aborted" ELSE "ready"
    /\ calls' = calls + 1
    /\ UNCHANGED << inputs, peer, failure_, union_find_forest_, inv_live_,
                    conforming, conformingRoots >>

InitCall ==
    /\ pc = "ready" /\ calls < MaxCalls
    /\ \E to \in {FreshName, func_.body.ret}, from \in Pool :
           MemberCall("Init", << to, from >>, InitVar(Tables, to, from))

MergeCall ==
    /\ pc = "ready" /\ calls < MaxCalls
    /\ \E v1 \in Pool, v2 \in Pool :
           MemberCall("Merge", << v1, v2 >>, Merge(Tables, v1, v2))

RemoveCall ==
    /\ pc = "ready" /\ calls < MaxCalls
    /\ \E v1 \in Pool, v2 \in Pool :
           MemberCall("Remove", << v1, v2 >>, Remove(Tables, v1, v2))

MergeArrCall ==
    /\ pc = "ready" /\ calls < MaxCalls
    /\ \E n \in 0..(MaxSize + 1) : \E vs \in [1..n -> Pool] :
           MemberCall("MergeArr", vs, MergeArr(Tables, vs))

\* MergeLive with next_var_ = next_var
MergeLiveCall ==
    /\ pc = "ready" /\ calls < MaxCalls
    /\ \E next_var \in Pool, cur \in Pool, def \in Pool \cup {NullVar} :
           MemberCall("MergeLive", << next_var, cur, def >>,
                      MergeLive(Tables, next_var, cur, def))

GetTensorVarMemberCall ==
    /\ pc = "ready" /\ calls < MaxCalls
    /\ \E x \in Pool :
        LET r == GetTensorVar(vset_, x)
        IN  /\ last' = [op |-> "GetTensorVar", args |-> << x >>, ret |-> r.ret]
            /\ pc' = IF r.abort THEN "aborted" ELSE "ready"
            /\ aborted' = r.abort
    /\ calls' = calls + 1
    /\ UNCHANGED << inputs, peer, next_, failure_, vset_, vtuple_, live_, label_,
                    union_find_forest_, inv_live_, conforming, conformingRoots >>

FindMemberCall ==
    /\ pc = "ready" /\ calls < MaxCalls
    /\ \E x \in Units \cup {UnboundVar} :
        LET r == Find(union_find_forest_, x)
        IN  /\ union_find_forest_' = r.f
            /\ last' = [op |-> "Find", args |-> << x >>, ret |-> r.ret]
            /\ pc' = IF r.abort THEN "aborted" ELSE "ready"
            /\ aborted' = r.abort
    /\ calls' = calls + 1
    /\ UNCHANGED << inputs, peer, next_, failure_, vset_, vtuple_, live_, label_,
                    inv_live_, conforming, conformingRoots >>

InitOps ==
    /\ pc = "start"
    /\ progId \in OpsProgIds
    /\ size = 1
    /\ argTy = TensorTy
    /\ failure_ = FALSE
    /\ aborted = FALSE
    /\ vset_ = << >>
    /\ vtuple_ = << >>
    /\ live_ = << >>
    /\ label_ = << >>
    /\ union_find_forest_ = << >>
    /\ inv_live_ = << >>
    /\ last = NoCall
    /\ conforming = TRUE
    /\ conformingRoots = TRUE
    /\ next_ = << >>
    /\ calls = 0
    /\ peer = NoPeer

NextOps ==
    \/ FormCheckStep
    \/ ForwardStep
    \/ BackwardStep
    \/ FinishStep
    \/ InitCall
    \/ MergeCall
    \/ RemoveCall
    \/ MergeArrCall
    \/ MergeLiveCall
    \/ GetTensorVarMemberCall
    \/ FindMemberCall

SpecOps == InitOps /\ [][NextOps]_vars

(***************************************************************************)
(* Two analyzers in one process.  The first is the variables above; the    *)
(* second is the record peer, with the same data members.  RunStep is one  *)
(* part of Run on an analyzer given as a record.                           *)
(***************************************************************************)
NewAnalyzer(id, sz) ==
    [pc |-> "start", progId |-> id, size |-> sz, failure |-> FALSE,
     vset |-> << >>, vtuple |-> << >>, live |-> << >>, label |-> << >>, next |-> << >>,
     forest |-> << >>, inv |-> << >>]

\* the first analyzer as a record
Analyzer1 ==
    [pc |-> pc, progId |-> progId, size |-> size, failure |-> failure_,
     vset |-> vset_, vtuple |-> vtuple_, live |-> live_, label |-> label_, next |-> next_,
     forest |-> union_find_forest_, inv |-> inv_live_]

TablesOf(a) == [vset |-> a.vset, vtuple |-> a.vtuple, live |-> a.live, label |-> a.label,
                next |-> a.next, abort |-> FALSE, ret |-> NullVar]

WithTables(a, s, to) ==
    [a EXCEPT !.vset = s.vset, !.vtuple = s.vtuple, !.live = s.live, !.label = s.label,
              !.next = s.next, !.pc = IF s.abort THEN "aborted" ELSE to]

RunStep(a) ==
    LET f == Prog(a.progId, a.size) IN
    CASE a.pc = "start" ->
            LET fail == FormCheck(f.body)
            IN  [a EXCEPT !.failure = fail, !.pc = IF fail THEN "done" ELSE "checked"]
      [] a.pc = "checked" ->
            WithTables(a, Forward(InitParams(TablesOf(a), f.params, 1), f.body), "forwarded")
      [] a.pc = "forwarded" ->
            WithTables(a, RunBackward(TablesOf(a), f.body), "backwarded")
      [] a.pc = "backwarded" ->
            [a EXCEPT !.inv = Invert(a.live, UnitsOf(a.vset)),
                      !.forest = InitForest(UnitsOf(a.vset)),
                      !.pc = "ready"]

Terminal(a) == a.pc \in {"ready", "done", "aborted"}

RECURSIVE RunToEnd(_)
RunToEnd(a) == IF Terminal(a) THEN a ELSE RunToEnd(RunStep(a))

\* what an analyzer of the function (id, sz) holds after Run, run alone
RunAlone(id, sz) == RunToEnd(NewAnalyzer(id, sz))

\* one part of Run of the second analyzer
PeerRunStep ==
    /\ peer.pc \in {"start", "checked", "forwarded", "backwarded"}
    /\ peer' = RunStep(peer)
    /\ UNCHANGED << pc, inputs, failure_, aborted, vset_, vtuple_, live_, label_,
                    union_find_forest_, inv_live_, last, conforming, conformingRoots, next_,
                    calls >>

InitPair ==
    /\ pc = "start"
    /\ progId \in ProgIds
    /\ size \in 1..MaxSize
    /\ progId \notin SizedProgs => size = 1
    /\ argTy = TensorTy
    /\ failure_ = FALSE
    /\ aborted = FALSE
    /\ vset_ = << >>
    /\ vtuple_ = << >>
    /\ live_ = << >>
    /\ label_ = << >>
    /\ union_find_forest_ = << >>
    /\ inv_live_ = << >>
    /\ last = NoCall
    /\ conforming = TRUE
    /\ conformingRoots = TRUE
    /\ next_ = << >>
    /\ calls = 0
    /\ \E id \in ProgIds, sz \in 1..MaxSize :
           /\ id \notin SizedProgs => sz = 1
           /\ peer = NewAnalyzer(id, sz)

NextPair ==
    \/ FormCheckStep
    \/ ForwardStep
    \/ BackwardStep
    \/ FinishStep
    \/ PeerRunStep

SpecPair == InitPair /\ [][NextPair]_vars

NextRun ==
    \/ FormCheckStep
    \/ ForwardStep
    \/ BackwardStep
    \/ FinishStep
    \/ GetTensorVarCall

SpecRun == InitRun /\ [][NextRun]_vars

(***************************************************************************)
(* Vocabulary of the properties.                                           *)
(***************************************************************************)
Ready == pc = "ready"

\* what Find(x) returns in the current state
FindRet(x) == Find(union_find_forest_, x).ret

\* what Find(x) returned in the state the last call started from
FindRet0(x) == Find(last.forest0, x).ret

\* what Intersect(x, y) returns in the current state
IntersectRet(x, y) == Intersect(inv_live_, x, y).ret

\* the live range of a unit before any coalescing: the anchors where the
\* backward pass found it live (live_ is not written after Run)
OrigRange(u) == { y \in DOMAIN live_ : u \in live_[y] }

Overlap(s1, s2) == s1 \cap s2 # {}

WellFormed == ~HasClosure(func_.body)

(***************************************************************************)
(* C1.  Memory-reuse guarantee under a conforming planner.                 *)
(***************************************************************************)
\* C1 as claimed: if every Unite(a, b) so far directly followed a call
\* Intersect(a, b) that returned false (a, b any units), then two distinct
\* units with the same Find have disjoint pre-coalescing live ranges.
C1_ReuseGuarantee_AnyUnits ==
    (Ready /\ conforming) =>
        LET root  == [u \in Units |-> FindRet(u)]
            range == [u \in Units |-> OrigRange(u)]
        IN  \A u \in Units, w \in Units :
                (u # w /\ root[u] = root[w]) => ~Overlap(range[u], range[w])

\* C1 amended: the guarantee holds when every Unite(a, b) directly followed
\* a call Intersect(Find(a), Find(b)), on the two roots, that returned false.
C1_ReuseGuarantee_Roots ==
    (Ready /\ conformingRoots) =>
        LET root  == [u \in Units |-> FindRet(u)]
            range == [u \in Units |-> OrigRange(u)]
        IN  \A u \in Units, w \in Units :
                (u # w /\ root[u] = root[w]) => ~Overlap(range[u], range[w])

\* a conforming Unite whose first argument was not a root has merged two
\* classes, one of which already held two units
C1_Witness ==
    /\ Ready /\ conformingRoots
    /\ last.op = "Unite"
    /\ FindRet0(last.a) # last.a
    /\ FindRet0(last.a) # FindRet0(last.b)
    /\ \E u \in Units, w \in Units : u # w /\ u # last.ret /\ w # last.ret
                                      /\ FindRet(u) = last.ret /\ FindRet(w) = last.ret

(***************************************************************************)
(* C2.  What Intersect compares.                                           *)
(***************************************************************************)
\* C2 as claimed: for all units a, b (roots or not) Intersect(a, b) is true
\* iff inv_live[Find(a)] and inv_live[Find(b)] share an anchor.
C2_Intersect_OnRoots ==
    Ready =>
        LET root == [u \in Units |-> FindRet(u)]
        IN  \A a \in Units, b \in Units :
                IntersectRet(a, b) <=> Overlap(inv_live_[root[a]], inv_live_[root[b]])

\* C2 amended: Intersect(a, b) is true iff the entries inv_live[a] and
\* inv_live[b] of its own arguments share an anchor (no Find is applied);
\* this is the claimed value when a and b are roots.
C2_Intersect_OnArguments ==
    /\ (Ready /\ last.op = "Intersect") =>
            (last.bret <=> Overlap(inv_live_[last.a], inv_live_[last.b]))
    /\ Ready =>
        LET root == [u \in Units |-> FindRet(u)]
        IN  \A a \in Units, b \in Units :
                /\ IntersectRet(a, b) <=> Overlap(inv_live_[a], inv_live_[b])
                /\ (root[a] = a /\ root[b] = b) =>
                       (IntersectRet(a, b) <=> Overlap(inv_live_[root[a]], inv_live_[root[b]]))

\* Intersect was called on a merged (non-root) unit and answered false
\* although the roots' entries share an anchor
C2_Witness ==
    /\ Ready /\ last.op = "Intersect"
    /\ FindRet(last.a) # last.a
    /\ ~last.bret
    /\ Overlap(inv_live_[FindRet(last.a)], inv_live_[FindRet(last.b)])

(***************************************************************************)
(* C3.  Unite(a, b) puts a and b in one class and returns its root.        *)
(***************************************************************************)
\* C3: right after Unite(a, b) returns, Find(a) = Find(b) = the value
\* Unite returned, whatever Unite/Find calls came before.
C3_UniteJoins ==
    (Ready /\ last.op = "Unite") =>
        /\ FindRet(last.a) = FindRet(last.b)
        /\ FindRet(last.a) = last.ret

\* Unite has joined two units of different classes, after earlier merges
C3_Witness ==
    /\ Ready /\ last.op = "Unite"
    /\ FindRet0(last.a) # FindRet0(last.b)
    /\ \E u \in Units : last.forest0[u] # u
    /\ FindRet(last.a) = last.ret /\ FindRet(last.b) = last.ret

(***************************************************************************)
(* C4.  No information loss across merges.                                 *)
(***************************************************************************)
\* C4: for every unit u, inv_live[Find(u)] contains inv_live[u] and the
\* pre-coalescing live range of every unit of u's class.
C4_NoInformationLoss ==
    Ready =>
        LET root == [u \in Units |-> FindRet(u)]
        IN  \A u \in Units :
                /\ inv_live_[u] \subseteq inv_live_[root[u]]
                /\ \A w \in Units :
                       root[w] = root[u] => OrigRange(w) \subseteq inv_live_[root[u]]

\* a class of three units whose root's entry is strictly larger than the
\* original range of each member
C4_Witness ==
    /\ Ready
    /\ \E r \in Units :
          /\ Cardinality({ u \in Units : FindRet(u) = r }) >= 3
          /\ \A u \in Units : FindRet(u) = r =>
                /\ OrigRange(u) # {}
                /\ OrigRange(u) # inv_live_[r]

(***************************************************************************)
(* C5.  Unite on different classes: exactly the union, nothing else moves. *)
(***************************************************************************)
\* C5: after Unite(a, b) on units of different classes the surviving root's
\* inv_live is the union of the two roots' entries before the call, and
\* every other unit's entry (the absorbed root's too) is as before.
C5_UniteIsUnion ==
    (Ready /\ last.op = "Unite" /\ FindRet0(last.a) # FindRet0(last.b)) =>
        /\ inv_live_[last.ret] =
               last.inv0[FindRet0(last.a)] \cup last.inv0[FindRet0(last.b)]
        /\ \A u \in Units : u # last.ret => inv_live_[u] = last.inv0[u]
        /\ DOMAIN inv_live_ = DOMAIN last.inv0

\* two classes with different non-empty entries were merged
C5_Witness ==
    /\ Ready /\ last.op = "Unite"
    /\ FindRet0(last.a) # FindRet0(last.b)
    /\ last.inv0[FindRet0(last.a)] # {}
    /\ last.inv0[FindRet0(last.b)] # {}
    /\ inv_live_[last.ret] # last.inv0[last.ret]
    /\ inv_live_[FindRet0(last.a)] = last.inv0[FindRet0(last.a)]

(***************************************************************************)
(* C6.  Find is idempotent and returns a root.                             *)
(***************************************************************************)
\* C6: for every unit x, Find called on the value Find(x) returned, in the
\* forest Find(x) left behind, returns that same value, which is its own
\* parent.
C6_FindIdempotent ==
    /\ (Ready /\ last.op = "Find") =>
            /\ union_find_forest_[last.ret] = last.ret
            /\ FindRet(last.ret) = last.ret
    /\ Ready =>
        \A x \in Units :
            LET r == Find(union_find_forest_, x)
            IN  /\ Find(r.f, r.ret).ret = r.ret
                /\ r.f[r.ret] = r.ret

\* Find was called on a unit two links away from its root (the path gets
\* compressed)
C6_Witness ==
    /\ Ready /\ last.op = "Find"
    /\ last.forest0[last.a] # last.a
    /\ last.forest0[last.forest0[last.a]] # last.forest0[last.a]
    /\ union_find_forest_[last.a] = last.ret

(***************************************************************************)
(* C7.  Intersect is symmetric.                                            *)
(***************************************************************************)
\* C7: Intersect(a, b) = Intersect(b, a) for all units, in every state.
C7_IntersectSymmetric ==
    Ready => \A a \in Units, b \in Units : IntersectRet(a, b) = IntersectRet(b, a)

\* Intersect answered true for two different units with different entries,
\* one of them enlarged by a merge
C7_Witness ==
    /\ Ready /\ last.op = "Intersect"
    /\ last.a # last.b
    /\ last.bret
    /\ inv_live_[last.a] # inv_live_[last.b]
    /\ inv_live_[last.a] # OrigRange(last.a)

(***************************************************************************)
(* C8.  Unite does not enforce its precondition.                           *)
(***************************************************************************)
\* C8: Unite(a, b) called while Intersect(a, b) is true does not abort: it
\* merges the classes and unions the two roots' inv_live into the survivor.
C8_UniteUnguarded ==
    (last.op = "Unite" /\ Intersect(last.inv0, last.a, last.b).ret) =>
        /\ Ready /\ ~aborted
        /\ FindRet(last.a) = FindRet(last.b)
        /\ last.ret = FindRet(last.b)
        /\ inv_live_[last.ret] =
               last.inv0[FindRet0(last.a)] \cup last.inv0[FindRet0(last.b)]

\* Unite was called on two units of different classes whose entries intersect
C8_Witness ==
    /\ Ready /\ last.op = "Unite"
    /\ Intersect(last.inv0, last.a, last.b).ret
    /\ FindRet0(last.a) # FindRet0(last.b)
    /\ FindRet(last.a) = FindRet(last.b)

(***************************************************************************)
(* C9.  Well-formed input: success, and a unit-set for every variable.     *)
(***************************************************************************)
\* C9: for a function with no closure invocation Run neither reports
\* failure nor aborts, and when it has returned IsSuccess() is true and
\* every parameter and every bound name (those bound inside the branches
\* of conditionals too) has a vset entry.
C9_WellFormedSucceeds ==
    WellFormed =>
        /\ last.op = "none" => pc \notin {"done", "aborted"}
        /\ Ready => (IsSuccess /\ ProgramVars(func_) \subseteq DOMAIN vset_)

\* Run has returned on the function with a conditional: parameters, the
\* names bound in both branches and the merged result have unit-sets
C9_Witness ==
    /\ Ready /\ last.op = "none"
    /\ IsSuccess
    /\ Cardinality(BoundVars(func_.body)) >= 3
    /\ \E i \in 1..Len(func_.body.lets) : func_.body.lets[i].e.k = "if"
    /\ ProgramVars(func_) \subseteq DOMAIN vset_

C11_GetTensorVarResult ==
    (last.op = "GetTensorVar" /\ last.a \in DOMAIN vset_) =>
        /\ ~aborted
        /\ IsDefined(last.ret) <=> Cardinality(vset_[last.a]) = 1
        /\ IsDefined(last.ret) => vset_[last.a] = {last.ret}

\* a step that is a call of GetTensorVar writes no table
C11_GetTensorVarFrame ==
    (last' # last /\ last'.op = "GetTensorVar") =>
        UNCHANGED << vset_, vtuple_, live_, label_, union_find_forest_, inv_live_, failure_ >>

\* C11: GetTensorVar(x) returns the single tensor unit of vset_[x] when and
\* only when vset_[x] has exactly one element, returns the undefined Var
\* when vset_[x] is empty or has two or more elements, and leaves every
\* table unchanged.
C11_GetTensorVar == []C11_GetTensorVarResult /\ [][C11_GetTensorVarFrame]_vars

\* GetTensorVar has returned the unit of a variable that has exactly one
C11_Witness ==
    /\ last.op = "GetTensorVar"
    /\ last.a \in DOMAIN vset_
    /\ Cardinality(vset_[last.a]) = 1
    /\ last.ret \in vset_[last.a]

(***************************************************************************)
(* C12.  Tuple round-trip.                                                 *)
(***************************************************************************)
\* the forward pass has run to its end
Forwarded == pc \in {"forwarded", "backwarded", "ready"}

\* the bindings of the body of func_
Lets == func_.body.lets

\* binding j projects a field of the tuple that binding i builds
Projects(j, i) ==
    /\ Lets[i].e.k = "tuple"
    /\ Lets[j].e.k = "tgi"
    /\ Lets[j].e.tup = Lets[i].v

\* the field variable that binding j projects out of the tuple of binding i
FieldOf(j, i) == Lets[i].e.fields[Lets[j].e.idx + 1]

\* C12: for every k >= 1 and every i in [0, k), once the forward pass has
\* processed a binding that builds a tuple from k field variables and a
\* later binding that projects field i of it, the unit-set of the
\* projection's variable is exactly the unit-set of the i-th field variable
\* (unit-sets are written once, so this is the one it had when the tuple
\* was built); a field that is a tuple keeps its own fields, and fields that
\* share units keep them.
C12_TupleRoundTrip ==
    Forwarded =>
        \A i \in 1..Len(Lets), j \in 1..Len(Lets) :
            Projects(j, i) =>
                /\ Lets[j].v \in DOMAIN vset_
                /\ vset_[Lets[j].v] = vset_[FieldOf(j, i)]
                /\ FieldOf(j, i) \in DOMAIN vtuple_ =>
                       /\ Lets[j].v \in DOMAIN vtuple_
                       /\ vtuple_[Lets[j].v] = vtuple_[FieldOf(j, i)]

\* a tuple of MaxSize fields is built and every field projected: one field
\* is itself a tuple, and (with two fields or more) two fields share a unit
C12_Witness ==
    /\ Forwarded
    /\ \E i \in 1..Len(Lets) :
        /\ Lets[i].e.k = "tuple"
        /\ Len(Lets[i].e.fields) >= 2
        /\ \A f \in 1..Len(Lets[i].e.fields) :
               \E j \in 1..Len(Lets) : Projects(j, i) /\ Lets[j].e.idx + 1 = f
        /\ \E j \in 1..Len(Lets) :
               Projects(j, i) /\ FieldOf(j, i) \in DOMAIN vtuple_
                              /\ Cardinality(vset_[Lets[j].v]) = 2
        /\ \E j1, j2 \in 1..Len(Lets) :
               /\ j1 # j2 /\ Projects(j1, i) /\ Projects(j2, i)
               /\ vset_[Lets[j1].v] \cap vset_[Lets[j2].v] # {}

(***************************************************************************)
(* C13.  Liveness on the minimal chain.                                    *)
(***************************************************************************)
\* the backward pass has run to its end
Backwarded == pc \in {"backwarded", "ready"}

\* the tensor unit of a variable that has exactly one
UnitOf(v) == GetTensorVar(vset_, v).ret

\* the anchor of the return point of the body of func_: next_var_ at the
\* body's last binding
ReturnAnchor == next_[Lets[Len(Lets)].v]

\* C13: for v1 = op(x), v2 = op(v1), return v2, the unit of v1 is live only
\* at the program point that defines v2 and not at the return point; the
\* unit of v2 is live at the return point and at no program point at or
\* before its own definition.  Stated for the chain of any length: the unit
\* of v_i (i < length) is live exactly at the point that defines v_(i+1),
\* the unit of the last variable at the return point and at no binding.
C13_ChainLiveness ==
    (progId = 1 /\ Backwarded) =>
        \A i \in 1..size :
            LET u == UnitOf(ChainVar(i)) IN
            /\ IsDefined(u)
            /\ i < size =>
                   \A y \in DOMAIN live_ : u \in live_[y] <=> y = ChainVar(i + 1)
            /\ i = size =>
                   /\ u \in live_[ReturnAnchor]
                   /\ \A j \in 1..size : u \notin live_[ChainVar(j)]

\* the chain of two bindings has been analysed: the unit of v1 is live at v2
\* and the unit of v2 at the return point
C13_Witness ==
    /\ progId = 1 /\ size = 2 /\ Backwarded
    /\ UnitOf(ChainVar(1)) \in live_[ChainVar(2)]
    /\ UnitOf(ChainVar(1)) \notin live_[ReturnAnchor]
    /\ UnitOf(ChainVar(2)) \in live_[ReturnAnchor]
    /\ UnitOf(ChainVar(1)) # UnitOf(ChainVar(2))

(***************************************************************************)
(* C14.  Conditional merge.                                                *)
(***************************************************************************)
\* C14: for a binding r = if c { ... } else { ... }, the unit-set of r is
\* the union of the unit-sets of the two branches' results (two units when
\* each branch mints a fresh unit of its own), and the units of the
\* condition variable c are in the live-in set of the binding of r.
C14_ConditionalMerge ==
    Backwarded =>
        \A i \in 1..Len(Lets) :
            Lets[i].e.k = "if" =>
                LET r == Lets[i].v
                    e == Lets[i].e
                IN  /\ vset_[r] = vset_[e.tb.ret] \cup vset_[e.fb.ret]
                    /\ vset_[e.cond] \subseteq live_[r]
                    /\ progId = 3 => Cardinality(vset_[r]) = 2

\* the conditional whose branches each mint a unit has been analysed
C14_Witness ==
    /\ progId = 3 /\ Backwarded
    /\ Lets[1].e.k = "if"
    /\ Cardinality(vset_[Lets[1].e.tb.ret]) = 1
    /\ Cardinality(vset_[Lets[1].e.fb.ret]) = 1
    /\ Cardinality(vset_[Lets[1].v]) = 2
    /\ vset_[Lets[1].e.cond] # {}
    /\ vset_[Lets[1].e.cond] \subseteq live_[Lets[1].v]

(***************************************************************************)
(* C15.  Two analyzers.                                                    *)
(***************************************************************************)
\* an analyzer whose Run has ended holds what it holds when run alone
C15_SameAsAlone ==
    /\ Terminal(Analyzer1) => Analyzer1 = RunAlone(progId, size)
    /\ Terminal(peer) => peer = RunAlone(peer.progId, peer.size)

\* a step of one analyzer leaves the other analyzer as it was
C15_OneAnalyzerPerStep == Analyzer1' = Analyzer1 \/ peer' = peer

RECURSIVE AllLets(_)
AllLets(b) ==
    UNION { {b.lets[i]} \cup
            (IF b.lets[i].e.k = "if"
             THEN AllLets(b.lets[i].e.tb) \cup AllLets(b.lets[i].e.fb) ELSE {})
            : i \in 1..Len(b.lets) }

\* the units of the variables of a sequence
UnitsOfVars(vs) == UNION { vset_[vs[i]] : i \in 1..Len(vs) }

\* the anchor of the first line of a block that has a binding
EntryAnchor(b) == b.lets[1].v

\* use-units(e): the units of the variables e reads; for a conditional the
\* units of the condition and what is live on entry to each branch
UseUnits(e) ==
    CASE e.k = "var"   -> vset_[e.ref]
      [] e.k = "call"  -> UnitsOfVars(e.args)
      [] e.k = "tuple" -> UnitsOfVars(e.fields)
      [] e.k = "tgi"   -> vset_[e.tup]
      [] e.k = "if"    -> vset_[e.cond] \cup live_[EntryAnchor(e.tb)]
                                        \cup live_[EntryAnchor(e.fb)]

\* C16: for every binding v = e whose successor anchor is next,
\* live[v] = (live[next] \ vset[v]) \cup use-units(e): the units v defines
\* are removed before the units e reads are added, so a unit that is both
\* in vset[v] and read by e is in live[v].
C16_BackwardRecurrence ==
    Backwarded =>
        \A l \in AllLets(func_.body) :
            /\ l.v \in DOMAIN next_
            /\ live_[l.v] = (live_[next_[l.v]] \ vset_[l.v]) \cup UseUnits(l.e)

\* the backward pass has visited a binding that reads a unit it defines (an
\* alias), with a unit live after it
C16_Witness ==
    /\ Backwarded
    /\ \E l \in AllLets(func_.body) :
        /\ vset_[l.v] \cap UseUnits(l.e) # {}
        /\ vset_[l.v] \cap UseUnits(l.e) \subseteq live_[l.v]
        /\ live_[next_[l.v]] \ vset_[l.v] # {}

(***************************************************************************)
(* C17.  inv_live_ is the inversion of live_.                              *)
(***************************************************************************)
\* no Unite has joined two units yet: every unit is its own parent
NoUniteYet == \A u \in DOMAIN union_find_forest_ : union_find_forest_[u] = u

RECURSIVE Leaves(_)
Leaves(ty) ==
    IF ty.k = "tensor" THEN 1
    ELSE LET RECURSIVE Sum(_)
             Sum(i) == IF i = 0 THEN 0 ELSE Sum(i - 1) + Leaves(ty.fields[i])
         IN  Sum(Len(ty.fields))

\* the tables hold the structure of ty at the variable v: a tensor is one
\* unit that denotes itself; a tuple has a vtuple entry with one variable
\* per field, in order, each holding the structure of that field, and its
\* units are those of its fields, one per tensor
RECURSIVE Conforms(_, _)
Conforms(v, ty) ==
    /\ v \in DOMAIN vset_
    /\ Cardinality(vset_[v]) = Leaves(ty)
    /\ IF ty.k = "tensor"
       THEN \A u \in vset_[v] : u \in DOMAIN vset_ /\ vset_[u] = {u}
       ELSE /\ v \in DOMAIN vtuple_
            /\ Len(vtuple_[v]) = Len(ty.fields)
            /\ \A i \in 1..Len(ty.fields) : Conforms(vtuple_[v][i], ty.fields[i])
            /\ vset_[v] = UNION { vset_[vtuple_[v][i]] : i \in 1..Len(ty.fields) }

\* C19 as claimed: for every type (a tensor, tuples nested to any depth,
\* one-field and empty tuples included) the variable the allocator returns
\* has one fresh unit per tensor of the type, and the vtuple entry of the
\* variable returned for every tuple (sub)type lists, in order, the
\* variables returned for its fields, so that projecting along any path
\* gives the units of that component.  a1 is bound to what the allocator
\* returned for argTy and holds its unit-set and its vtuple entry.
C19_AllocationPreservesStructure ==
    (progId = 7 /\ Forwarded) => Conforms(SrcVar("a1"), argTy)

(***************************************************************************)
(* C20.  Synthesized names.                                                *)
(***************************************************************************)
\* the variables CreateTensorVar has made: each one gets a unit-set
Synthesized == { v \in DOMAIN vset_ : v.n >= 0 }

\* the variables of the source program
SourceVars == ProgramVars(func_)

\* the k-th variable made for a prefix is named prefix_k, k below the
\* prefix's counter, and every count below the counter names a variable
NamedByCounter ==
    /\ \A v \in Synthesized :
        /\ v.p \in DOMAIN label_
        /\ v.n < label_[v.p]
        /\ NameOf(v) = v.p \o "_" \o ToString(v.n)
    /\ \A p \in DOMAIN label_ :
        Cardinality({ v \in Synthesized : v.p = p }) = label_[p]

\* a step never lowers a prefix's counter
CountersGrow ==
    \A p \in DOMAIN label_ : p \in DOMAIN label_' /\ label_'[p] >= label_[p]

\* C20 as claimed: every synthesized variable is named prefix_counter, no
\* two synthesized variables have the same name, and no synthesized
\* variable has the name of a variable of the source program.
C20_NamesNeverCollide ==
    /\ NamedByCounter
    /\ \A v \in Synthesized : \A w \in Synthesized \cup SourceVars :
           v # w => NameOf(v) # NameOf(w)

\* no two synthesized variables have the same name
C20_SynthesizedDistinct ==
    /\ NamedByCounter
    /\ \A v, w \in Synthesized : v # w => NameOf(v) # NameOf(w)

\* C20, amended: the counter kept for a prefix only increases, every
\* synthesized variable is named prefix_counter, and no two synthesized
\* variables have the same name.  (Nothing compares a synthesized name with
\* the source program's names.)
C20_SynthesizedNames == []C20_SynthesizedDistinct /\ [][CountersGrow]_vars

\* Run on a function with a variable named t_0 has made the unit t_0, and
\* more variables for the same prefix
C20_Witness ==
    /\ Backwarded
    /\ \E v \in Synthesized, x \in SourceVars : NameOf(v) = NameOf(x) /\ v # x
    /\ \E p \in DOMAIN label_ : label_[p] >= 2

(***************************************************************************)
(* C21.  A plain name reference is an alias.                               *)
(***************************************************************************)
\* the tensors of the types the allocator is given for func_: its
\* parameters and the results of its operator calls
RECURSIVE SumLeaves(_)
SumLeaves(tys) ==
    IF tys = {} THEN 0
    ELSE LET ty == CHOOSE x \in tys : TRUE
         IN  Leaves(ty[2]) + SumLeaves(tys \ {ty})

AllocatedTypes ==
    { << func_.params[i].v, func_.params[i].ty >> : i \in 1..Len(func_.params) }
    \cup { << l.v, l.e.ty >> : l \in { m \in AllLets(func_.body) : m.e.k = "call" } }

\* the forward pass gave every name bound to a variable the unit-set and
\* the vtuple entry of that variable, and made no unit for it
AliasBindings ==
    Forwarded =>
        /\ \A l \in AllLets(func_.body) :
              l.e.k = "var" =>
                  /\ vset_[l.v] = vset_[l.e.ref]
                  /\ l.e.ref \in DOMAIN vtuple_ =>
                         (l.v \in DOMAIN vtuple_ /\ vtuple_[l.v] = vtuple_[l.e.ref])
                  /\ l.v \notin Units
        /\ Cardinality(Units) = SumLeaves(AllocatedTypes)

\* Init(to, from) has returned: to has the unit-set and the vtuple entry of
\* from
InitCopies ==
    (last.op = "Init" /\ ~aborted) =>
        /\ vset_[last.args[1]] = vset_[last.args[2]]
        /\ last.args[2] \in DOMAIN vtuple_ =>
               (last.args[1] \in DOMAIN vtuple_
                /\ vtuple_[last.args[1]] = vtuple_[last.args[2]])

\* a call of Init makes no unit and no name, and aborts when its target has
\* a unit-set already
InitOnce ==
    (calls' # calls /\ last'.op = "Init") =>
        /\ label_' = label_
        /\ UnitsOf(vset_') = UnitsOf(vset_)
        /\ last'.args[1] \in DOMAIN vset_ => aborted'

\* C21: binding a name to an already bound variable gives the name exactly
\* the unit-set of that variable (and its vtuple entry when it has one) and
\* mints no unit; a name is initialised this way once: a second
\* initialisation of the same name aborts.
C21_NameReferenceIsAlias == [](AliasBindings /\ InitCopies) /\ [][InitOnce]_vars

\* Init has given a new name the two units and the fields of a pair
C21_Witness ==
    /\ last.op = "Init" /\ ~aborted
    /\ last.args[2] \in DOMAIN vtuple_
    /\ Cardinality(vset_[last.args[1]]) = 2
    /\ vtuple_[last.args[1]] = vtuple_[last.args[2]]

(***************************************************************************)
(* C22.  The live set of the return point.                                 *)
(***************************************************************************)
\* C22: at the top-level return point the live set is exactly the unit-set
\* of the returned variable: every unit the returned value denotes is live
\* there and no other unit is (nothing is live after the return).
C22_ReturnPointLiveSet ==
    Backwarded => live_[ReturnAnchor] = vset_[func_.body.ret]

\* the function returns a tuple of two units and has a third unit, which is
\* not live at the return point
C22_Witness ==
    /\ Backwarded
    /\ Cardinality(vset_[func_.body.ret]) = 2
    /\ live_[ReturnAnchor] = vset_[func_.body.ret]
    /\ Units \ live_[ReturnAnchor] # {}

(***************************************************************************)
(* C23.  The order of the passes.                                          *)
(***************************************************************************)
\* the parts of Run in the order they are run, with what ends Run early
PassOrder ==
    { << "start", "checked" >>, << "start", "done" >>,
      << "checked", "forwarded" >>, << "checked", "aborted" >>,
      << "forwarded", "backwarded" >>, << "backwarded", "ready" >>,
      << "ready", "aborted" >> }

\* nothing is written before its pass, and when the backward pass is about
\* to start every variable of the function has a unit-set
PassesInOrder ==
    /\ pc = "start" => (vset_ = << >> /\ vtuple_ = << >> /\ live_ = << >>)
    /\ pc \in {"checked", "done"} => (vset_ = << >> /\ live_ = << >>)
    /\ vset_ # << >> => ~failure_
    /\ pc = "forwarded" => (live_ = << >> /\ ProgramVars(func_) \subseteq DOMAIN vset_)
    /\ live_ # << >> => ProgramVars(func_) \subseteq DOMAIN vset_

\* the parts of Run follow one another; the backward pass ends without
\* abort
PassStep ==
    pc' # pc => << pc, pc' >> \in PassOrder

\* C23: within Run the form check finishes before the forward pass starts,
\* and the forward pass finishes, with a unit-set for every variable,
\* before the backward pass reads vset or live for the first time; on
\* well-formed input the backward pass never finds a variable without a
\* vset entry.
C23_PassOrdering == []PassesInOrder /\ [][PassStep]_vars

\* the backward pass has run on the function with a conditional: every
\* name, those bound in the branches too, had its unit-set
C23_Witness ==
    /\ pc = "backwarded"
    /\ \E l \in AllLets(func_.body) : l.e.k = "if"
    /\ ProgramVars(func_) \subseteq DOMAIN vset_
    /\ \A l \in AllLets(func_.body) : l.v \in DOMAIN live_

(***************************************************************************)
(* C24.  Reading a missing entry.                                          *)
(***************************************************************************)
\* the variables whose vset entry the member function op reads, called
\* with the arguments a
ReadsVset(op, a) ==
    CASE op = "Init"         -> {a[2]}
      [] op = "Merge"        -> {a[1], a[2]}
      [] op = "Remove"       -> {a[1], a[2]}
      [] op = "MergeArr"     -> {a[i] : i \in 1..Len(a)}
      [] op = "GetTensorVar" -> {a[1]}
      [] op = "MergeLive"    -> {a[2]} \cup (IF IsDefined(a[3]) THEN {a[3]} ELSE {})
      [] OTHER               -> {}

\* the anchors whose live entry it reads, the units whose forest entry
ReadsLive(op, a) == IF op = "MergeLive" THEN {a[1]} ELSE {}

ReadsForest(op, a) == IF op = "Find" THEN {a[1]} ELSE {}

\* a call that reads an entry that is missing aborts, and the entry is
\* still missing afterwards
MissingEntryAborts(ops) ==
    (calls' # calls /\ last'.op \in ops) =>
        LET noVset   == ReadsVset(last'.op, last'.args) \ DOMAIN vset_
            noLive   == ReadsLive(last'.op, last'.args) \ DOMAIN live_
            noForest == ReadsForest(last'.op, last'.args) \ DOMAIN union_find_forest_
        IN  /\ (noVset \cup noLive \cup noForest # {}) => aborted'
            /\ noVset \cap DOMAIN vset_' = {}
            /\ noLive \cap DOMAIN live_' = {}
            /\ noForest \cap DOMAIN union_find_forest_' = {}

MemberFunctions == {"Init", "Merge", "Remove", "MergeArr", "GetTensorVar", "MergeLive", "Find"}

\* C24 as claimed: every operation that reads the unit-set of a variable
\* with no vset entry (GetTensorVar, Remove, Merge, Init with such a source,
\* MergeLive with no live entry for the successor), and Find on a unit with
\* no forest entry, aborts; none goes on with the missing entry taken as
\* the empty set, and none creates the entry.
C24_MissingEntryAborts == [][MissingEntryAborts(MemberFunctions)]_vars

(***************************************************************************)
(* C25.  vset entries are written once.                                    *)
(***************************************************************************)
\* every vset entry there is keeps its value over the step
EntriesKept == \A v \in DOMAIN vset_ : v \in DOMAIN vset_' /\ vset_'[v] = vset_[v]

\* a Merge, Remove or MergeLive that returns binds its result to a variable
\* that had no entry
ResultIsFresh ==
    (calls' # calls /\ last'.op \in {"Merge", "Remove", "MergeLive"} /\ ~aborted') =>
        /\ last'.ret \notin DOMAIN vset_
        /\ last'.ret \in DOMAIN vset_'

\* the tables after the forward pass over the first k bindings of the body
ForwardPrefix(k) ==
    LET s0 == [vset |-> << >>, vtuple |-> << >>, live |-> << >>, label |-> << >>,
               next |-> << >>, abort |-> FALSE, ret |-> NullVar]
    IN  Forward(InitParams(s0, func_.params, 1),
                [func_.body EXCEPT !.lets = SubSeq(@, 1, k)])

\* inside the forward pass: the entries there are before a binding is
\* visited are there, with the same value, after it
ForwardKeeps ==
    \A k \in 1..Len(func_.body.lets) :
        LET before == ForwardPrefix(k - 1)
            after  == ForwardPrefix(k)
        IN  ~after.abort =>
                \A v \in DOMAIN before.vset :
                    v \in DOMAIN after.vset /\ after.vset[v] = before.vset[v]

\* C25: Merge, Remove and MergeLive bind their result to a fresh variable
\* and leave the unit-sets of their operands and of every other variable as
\* they were; an entry of vset, once written, never changes.
C25_VsetEntriesImmutable == []ForwardKeeps /\ [][EntriesKept /\ ResultIsFresh]_vars

\* a Merge has returned a unit-set that neither operand has, and the
\* operands have theirs
C25_Witness ==
    /\ last.op = "Merge" /\ ~aborted
    /\ vset_[last.ret] \notin {vset_[last.args[1]], vset_[last.args[2]]}
    /\ vset_[last.args[1]] # {}

(***************************************************************************)
(* C26.  A unit being written and the units live across the line.          *)
(***************************************************************************)
\* the units live across the binding l: defined before it and read at or
\* after the line that follows it
LiveAcross(l) == live_[next_[l.v]] \ vset_[l.v]

\* the bindings that mint their units: calls of an operator
Minting == { l \in AllLets(func_.body) : l.e.k = "call" }

\* C26 as claimed: after a successful Run, for the unit u minted by the
\* binding at line l and every other unit w that is live across line l,
\* Intersect(u, w) is true, also when u is never read afterwards.
C26_WriteOverlapsLiveAcross ==
    Ready =>
        \A l \in Minting :
            \A u \in vset_[l.v], w \in LiveAcross(l) : IntersectRet(u, w)

(***************************************************************************)
(* C27.  The forest has no cycle and Find returns.                         *)
(***************************************************************************)
\* the unit reached from u by following k parent links
RECURSIVE Up(_, _, _)
Up(f, u, k) == IF k = 0 THEN u ELSE Up(f, f[u], k - 1)

\* every parent is a unit of the forest and every path of parent links
\* ends in a unit that is its own parent: no cycle but the roots' own
Acyclic(f) ==
    /\ \A u \in DOMAIN f : f[u] \in DOMAIN f
    /\ \A u \in DOMAIN f :
           LET r == Up(f, u, Cardinality(DOMAIN f)) IN f[r] = r

\* C27: in every state reached from the forest of self-rooted units by Unite
\* and Find calls in any order (Unite of a unit with itself or with a unit of
\* its own class included) the parent relation has no cycle other than the
\* roots' self-loops, and every Find call has returned a root.
C27_ForestAcyclic ==
    Ready =>
        /\ Acyclic(union_find_forest_)
        /\ last.op = "Find" =>
               /\ ~aborted
               /\ union_find_forest_[last.ret] = last.ret

\* Unite has been called on two different units of one class, and some
\* unit is two links away from its root
C27_Witness ==
    /\ Ready
    /\ last.op = "Unite" /\ last.a # last.b
    /\ FindRet0(last.a) = FindRet0(last.b)
    /\ \E u \in DOMAIN union_find_forest_ :
        LET p == union_find_forest_[u] IN p # u /\ union_find_forest_[p] # p

(***************************************************************************)
(* C28.  Find and Intersect ask, they do not change the partition.         *)
(***************************************************************************)
\* a Find call has left what Find returns for every unit, and inv_live_
FindKeeps ==
    (Ready /\ last.op = "Find") =>
        /\ \A y \in Units : FindRet(y) = FindRet0(y)
        /\ inv_live_ = last.inv0

\* an Intersect call leaves every table
IntersectKeeps ==
    (Ready /\ Ready' /\ last'.op = "Intersect") =>
        /\ union_find_forest_' = union_find_forest_
        /\ inv_live_' = inv_live_
        /\ vset_' = vset_ /\ vtuple_' = vtuple_ /\ live_' = live_ /\ label_' = label_

\* two units that were of one class when the last call started are of one
\* class now
NeverSplit ==
    (Ready /\ last.op \in {"Find", "Unite", "Intersect"}) =>
        LET before == [u \in Units |-> FindRet0(u)]
            after  == [u \in Units |-> FindRet(u)]
        IN  \A a, b \in Units : before[a] = before[b] => after[a] = after[b]

\* C28: Find(x) may rewrite parent links but leaves, for every unit y, what
\* Find(y) returns, and every inv_live entry; Intersect changes no state;
\* classes are merged and never split: once Find(a) = Find(b), it stays so
\* under every later Find, Unite and Intersect.
C28_QueriesKeepPartition == [](FindKeeps /\ NeverSplit) /\ [][IntersectKeeps]_vars

\* a Find call has rewritten a parent link
C28_Witness ==
    /\ Ready /\ last.op = "Find"
    /\ union_find_forest_ # last.forest0
    /\ \E y \in Units : y # last.a /\ FindRet(y) = FindRet(last.a)

(***************************************************************************)
(* C29.  Unite on two units of one class.                                  *)
(***************************************************************************)
\* the last call was Unite(a, b) with Find(a) = Find(b) before it
UnitedSameClass ==
    /\ Ready /\ last.op = "Unite"
    /\ FindRet0(last.a) = FindRet0(last.b)

\* C29: if Find(a) = Find(b) before Unite(a, b), then after the call every
\* unit has the Find it had, every inv_live entry is the same, and the call
\* has returned the common root.
C29_UniteSameClassNoOp ==
    UnitedSameClass =>
        /\ \A y \in Units : FindRet(y) = FindRet0(y)
        /\ inv_live_ = last.inv0
        /\ last.ret = FindRet0(last.a)

\* Unite has been called on two different units of one class whose root has
\* anchors, one of them not the root
C29_Witness ==
    /\ UnitedSameClass
    /\ last.a # last.b
    /\ last.b # last.ret
    /\ inv_live_[last.ret] # {}

(***************************************************************************)
(* C30.  Merge over an array of variables.                                 *)
(***************************************************************************)
\* Merge(vars) has made a variable that had no entry and has given it units
MergedFresh(units) ==
    /\ ~aborted'
    /\ last'.ret \notin DOMAIN vset_
    /\ last'.ret \in DOMAIN vset_'
    /\ vset_'[last'.ret] = units

\* what Merge(vars) does by the number of its elements
MergeArrCases ==
    (calls' # calls /\ last'.op = "MergeArr") =>
        LET vs   == last'.args
            n    == Len(vs)
        IN  /\ n = 0 =>
                /\ MergedFresh({})
                /\ last'.ret.p = "n"
                /\ DOMAIN vset_' = DOMAIN vset_ \cup {last'.ret}
            /\ n = 1 =>
                IF vs[1] \in DOMAIN vset_
                THEN /\ ~aborted'
                     /\ last'.ret = vs[1]
                     /\ vset_' = vset_ /\ label_' = label_
                ELSE aborted'
            /\ n >= 2 =>
                IF \A i \in 1..n : vs[i] \in DOMAIN vset_
                THEN MergedFresh(UNION { vset_[vs[i]] : i \in 1..n })
                ELSE aborted'

\* C30: Merge of the empty array returns a fresh null variable whose
\* unit-set is empty; Merge of one element returns that element itself and
\* makes no variable (and aborts when the element has no vset entry); Merge
\* of n >= 2 elements returns a fresh variable whose unit-set is the union
\* of the n unit-sets.
C30_MergeArray == [][MergeArrCases]_vars

\* Merge of three variables has returned more units than its first two
\* elements have
C30_Witness ==
    /\ last.op = "MergeArr" /\ ~aborted
    /\ Len(last.args) = 3
    /\ vset_[last.ret] # vset_[last.args[1]] \cup vset_[last.args[2]]

====
